---- MODULE Spec2Model ----
(***************************************************************************)
(* Model of the three Liberty (.lib) rewriting tools of the repository:    *)
(*   remove_setup_falling.py  clean_lib_file                               *)
(*   fix_asap7_macros.py      find_output_pin_line_ranges,                 *)
(*                            process_lib_file, scale_numbers_in_line      *)
(*   update_lib_area.py       update_lib_file                              *)
(*                                                                         *)
(* A file is a sequence of lines.  A line is a record [txt, nums]: txt is  *)
(* the text of the line with every free-standing numeric token replaced    *)
(* by "#", nums the numeric tokens in order.  Lex(txt) is the token        *)
(* sequence of the text; every test the code makes on a line (regex        *)
(* search, startswith, substring, str.count) is computed on the tokens.    *)
(***************************************************************************)
EXTENDS Integers, Sequences, FiniteSets, TLC

VARIABLES
  disk,   \* the files: lib (the .lib file), tmp (lib + ".tmp"), out (another path)
  orig,   \* the .lib file as it was when the current run started
  pc,     \* where the running function is
  run,    \* "first", or "second" when the tool runs again on its own output
  st,     \* the locals of the running function
  res     \* how the call ended: what it returned or reported

vars == <<disk, orig, pc, run, st, res>>

\* Longest input file, in lines.
MaxLen == 5

(***************************************************************************)
(* Lines and their tokens                                                  *)
(***************************************************************************)
Line(txt, nums) == [txt |-> txt, nums |-> nums]

\* A decimal number m * 10^e, as the text of a numeric token denotes it.
Num(m, e) == [m |-> m, e |-> e]

\* The tokens of a line's text.  A single blank between two tokens is a
\* token of its own where the code tests for it ('pin (', 'values (');
\* other white space is not kept.
Lex(txt) ==
  CASE txt = "timing () {"                  -> <<"timing", "(", ")", "{">>
    [] txt = "timing () { }"                -> <<"timing", "(", ")", "{", "}">>
    [] txt = "timing () { related_pin : \"clk\";"
         -> <<"timing", "(", ")", "{", "related_pin", ":", "\"clk\"", ";">>
    [] txt = "related_pin : \"clk\";"       -> <<"related_pin", ":", "\"clk\"", ";">>
    [] txt = "timing_type : setup_falling;" -> <<"timing_type", ":", "setup_falling", ";">>
    [] txt = "timing_type : hold_rising;"   -> <<"timing_type", ":", "hold_rising", ";">>
    [] txt = "cell_rise (t) {"              -> <<"cell_rise", "(", "t", ")", "{">>
    [] txt = "}"                            -> <<"}">>
    [] txt = "pin (d[#]) {"                 -> <<"pin", " ", "(", "d", "[", "#", "]", ")", "{">>
    [] txt = "pin (q[#]) { direction : output; }"
         -> <<"pin", " ", "(", "q", "[", "#", "]", ")", "{",
              "direction", ":", "output", ";", "}">>
    [] txt = "direction : output;"          -> <<"direction", ":", "output", ";">>
    [] txt = "values ( \"#\", \\"          -> <<"values", " ", "(", "\"", "#", "\"", ",", "\\">>
    [] txt = "\"#\" );"                     -> <<"\"", "#", "\"", ")", ";">>
    [] txt = "index_1 (\"#\");"             -> <<"index_1", " ", "(", "\"", "#", "\"", ")", ";">>
    [] txt = "area : #;"                    -> <<"area", ":", "#", ";">>
    [] txt = "cell (sram) {"                -> <<"cell", "(", "sram", ")", "{">>
    [] OTHER                                -> <<>>

\* line.count(ch)
Count(line, ch) ==
  LET toks == Lex(line.txt)
  IN  Cardinality({i \in 1..Len(toks) : toks[i] = ch})

\* re.search of a pattern that is a run of tokens separated by \s*
Search(line, pat) ==
  LET toks == Lex(line.txt)
  IN  \E i \in 1..(Len(toks) - Len(pat) + 1) :
        SubSeq(toks, i, i + Len(pat) - 1) = pat

\* re.search of the same kind of pattern anchored at the start (^\s*...)
SearchAtStart(line, pat) ==
  LET toks == Lex(line.txt)
  IN  /\ Len(toks) >= Len(pat)
      /\ SubSeq(toks, 1, Len(pat)) = pat

RECURSIVE SeqsUpTo(_, _)
SeqsUpTo(S, n) ==
  IF n = 0 THEN {<<>>}
  ELSE LET shorter == SeqsUpTo(S, n - 1)
       IN  shorter \cup {Append(s, x) : s \in {t \in shorter : Len(t) = n - 1}, x \in S}

(***************************************************************************)
(* The file system: the .lib file, clean_lib_file's temporary file and a   *)
(* separate output file for process_lib_file.                              *)
(***************************************************************************)
NoFile == [exists |-> FALSE, data |-> <<>>]
File(data) == [exists |-> TRUE, data |-> data]

(***************************************************************************)
(* remove_setup_falling.py                                                 *)
(***************************************************************************)
CleanAlphabet ==
  { Line("timing () {", <<>>),
    Line("timing () { }", <<>>),
    Line("timing () { related_pin : \"clk\";", <<>>),
    Line("related_pin : \"clk\";", <<>>),
    Line("timing_type : setup_falling;", <<>>),
    Line("timing_type : hold_rising;", <<>>),
    Line("cell_rise (t) {", <<>>),
    Line("}", <<>>) }

timing_start_match(line) == SearchAtStart(line, <<"timing", "(", ")", "{">>)

related_pin_clk(line) == Search(line, <<"related_pin", ":", "\"clk\"", ";">>)

timing_type_setup_falling(line) ==
  Search(line, <<"timing_type", ":", "setup_falling", ";">>)

\* The locals of clean_lib_file as the loop starts (current_pin, which only
\* names the pin in the [REMOVED] message, is left out).  removed lists the line
\* ranges of the [REMOVED] messages printed so far, written the numbers of
\* the input lines passed to f_out.write so far.
CleanLocals ==
  [ in_timing_block |-> FALSE,
    brace_level |-> 0,
    current_timing_block_lines |-> <<>>,
    found_clk |-> FALSE,
    found_setup_falling |-> FALSE,
    line_number |-> 0,
    block_start_line |-> 0,
    removed_blocks_count |-> 0,
    removed |-> <<>>,
    written |-> <<>> ]

\* The brace level of an open timing block after one more of its lines.
BraceLevelAfter(level, line) == level + Count(line, "{") - Count(line, "}")

\* The removable-timing decision at the end of a block.
RemoveBlock(clk, setup) == clk /\ setup

\* One iteration of the loop: the locals after the line, and the lines it
\* writes to f_out.
CleanStep(s, line) ==
  LET n == s.line_number + 1
  IN  IF timing_start_match(line) /\ ~s.in_timing_block
      THEN [ s |-> [s EXCEPT !.line_number = n,
                             !.in_timing_block = TRUE,
                             !.brace_level = 1,
                             !.block_start_line = n,
                             !.current_timing_block_lines = <<line>>,
                             !.found_clk = FALSE,
                             !.found_setup_falling = FALSE],
             emit |-> <<>> ]
      ELSE IF s.in_timing_block
      THEN LET buf   == Append(s.current_timing_block_lines, line)
               clk   == s.found_clk \/ related_pin_clk(line)
               setup == s.found_setup_falling \/ timing_type_setup_falling(line)
               level == BraceLevelAfter(s.brace_level, line)
           IN  IF level = 0
               THEN IF RemoveBlock(clk, setup)
                    THEN [ s |-> [s EXCEPT !.line_number = n,
                                           !.in_timing_block = FALSE,
                                           !.brace_level = level,
                                           !.found_clk = clk,
                                           !.found_setup_falling = setup,
                                           !.current_timing_block_lines = <<>>,
                                           !.removed_blocks_count = @ + 1,
                                           !.removed = Append(@, <<s.block_start_line, n>>)],
                           emit |-> <<>> ]
                    ELSE [ s |-> [s EXCEPT !.line_number = n,
                                           !.in_timing_block = FALSE,
                                           !.brace_level = level,
                                           !.found_clk = clk,
                                           !.found_setup_falling = setup,
                                           !.current_timing_block_lines = <<>>,
                                           !.written = @ \o [i \in 1..Len(buf) |->
                                                               s.block_start_line + i - 1]],
                           emit |-> buf ]
               ELSE [ s |-> [s EXCEPT !.line_number = n,
                                      !.brace_level = level,
                                      !.found_clk = clk,
                                      !.found_setup_falling = setup,
                                      !.current_timing_block_lines = buf],
                      emit |-> <<>> ]
      ELSE [ s |-> [s EXCEPT !.line_number = n, !.written = Append(@, n)],
             emit |-> <<line>> ]

\* The input file is absent: the call prints an error and returns.
CleanMissing ==
  /\ pc = "clean_start"
  /\ ~disk.lib.exists
  /\ pc' = "clean_done"
  /\ res' = "missing"
  /\ UNCHANGED <<disk, orig, run, st>>

\* open(filename, 'r'), open(temp_filename, 'w'), and the locals' initial values.
CleanOpen ==
  /\ pc = "clean_start"
  /\ disk.lib.exists
  /\ disk' = [disk EXCEPT !.tmp = File(<<>>)]
  /\ st' = CleanLocals
  /\ pc' = "clean_loop"
  /\ UNCHANGED <<orig, run, res>>

\* One iteration of `for line in f_in`.
CleanLine ==
  /\ pc = "clean_loop"
  /\ st.line_number < Len(disk.lib.data)
  /\ LET r == CleanStep(st, disk.lib.data[st.line_number + 1])
     IN  /\ st' = r.s
         /\ disk' = [disk EXCEPT !.tmp = File(disk.tmp.data \o r.emit)]
  /\ UNCHANGED <<orig, pc, run, res>>

\* The temporary file after the except clauses' clean-up.
CleanUpTemp(d) == [d EXCEPT !.tmp = NoFile]

\* An IOError (or any other exception) while reading or writing inside the
\* with block: the temporary file is removed and the call returns.
CleanIOError ==
  /\ pc = "clean_loop"
  /\ disk' = CleanUpTemp(disk)
  /\ pc' = "clean_done"
  /\ res' = "error"
  /\ UNCHANGED <<orig, run, st>>

\* End of input: both files are closed and shutil.move renames the
\* temporary file over the original.
CleanMove ==
  /\ pc = "clean_loop"
  /\ st.line_number = Len(disk.lib.data)
  /\ disk' = [disk EXCEPT !.lib = disk.tmp, !.tmp = NoFile]
  /\ pc' = "clean_done"
  /\ res' = "ok"
  /\ UNCHANGED <<orig, run, st>>

\* shutil.move raises: the rename did not happen, the temporary file is removed.
CleanMoveError ==
  /\ pc = "clean_loop"
  /\ st.line_number = Len(disk.lib.data)
  /\ disk' = CleanUpTemp(disk)
  /\ pc' = "clean_done"
  /\ res' = "move_error"
  /\ UNCHANGED <<orig, run, st>>

\* After a successful run the tool is run once more on the same path.
CleanAgain ==
  /\ pc = "clean_done"
  /\ res = "ok"
  /\ run = "first"
  /\ run' = "second"
  /\ orig' = disk.lib
  /\ pc' = "clean_start"
  /\ res' = "none"
  /\ st' = CleanLocals
  /\ UNCHANGED disk

InitClean ==
  /\ \E f \in {NoFile} \cup {File(d) : d \in SeqsUpTo(CleanAlphabet, MaxLen)} :
       /\ disk = [lib |-> f, tmp |-> NoFile, out |-> NoFile]
       /\ orig = f
  /\ pc = "clean_start"
  /\ run = "first"
  /\ st = CleanLocals
  /\ res = "none"

NextClean ==
  \/ CleanMissing
  \/ CleanOpen
  \/ CleanLine
  \/ CleanIOError
  \/ CleanMove
  \/ CleanMoveError
  \/ CleanAgain

SpecClean == InitClean /\ [][NextClean]_vars

(***************************************************************************)
(* fix_asap7_macros.py                                                     *)
(***************************************************************************)
ScaleAlphabet ==
  { Line("pin (d[#]) {", <<Num(3, 0)>>),
    Line("pin (q[#]) { direction : output; }", <<Num(3, 0)>>),
    Line("direction : output;", <<>>),
    Line("values ( \"#\", \\", <<Num(1200, 0)>>),
    Line("\"#\" );", <<Num(3400, 0)>>),
    Line("index_1 (\"#\");", <<Num(5, 0)>>),
    Line("}", <<>>) }

\* 'sub' in line, for a substring that is a run of adjacent tokens
Contains(line, sub) == Search(line, sub)

\* line.strip().startswith(prefix) / line.lstrip().startswith(prefix)
StartsWith(line, prefix) == SearchAtStart(line, prefix)

\* The decimal m * 10^e without trailing zeros in m, as "%.8g" prints it
\* (every number of the model has fewer than 8 significant digits).
RECURSIVE Normal(_)
Normal(n) ==
  IF n.m = 0 THEN Num(0, 0)
  ELSE IF n.m % 10 = 0 THEN Normal(Num(n.m \div 10, n.e + 1))
  ELSE n

\* replacer: float(token) / 1000.0, formatted with .8g
replacer(n) == Normal(Num(n.m, n.e - 3))

scale_numbers_in_line(line) ==
  [line EXCEPT !.nums = [i \in DOMAIN line.nums |-> replacer(line.nums[i])]]

\* The locals of find_output_pin_line_ranges before the loop.
FindLocals ==
  [ ranges |-> <<>>,
    brace_depth |-> 0,
    in_pin_block |-> FALSE,
    is_output_pin |-> FALSE,
    start_line |-> 0,
    start_depth |-> 0 ]

\* The test that ends the open pin/bus block.
BlockEnds(depth, start_depth) == depth <= start_depth

\* EndBlock without the reset of the block state.
EndBlock_StaysOpen(s, line_num) ==
  [s EXCEPT !.ranges = IF s.is_output_pin
                       THEN Append(@, <<s.start_line, line_num>>)
                       ELSE @]

\* The locals once a block has ended at line_num.
EndBlock(s, line_num) ==
  [s EXCEPT !.ranges = IF s.is_output_pin
                       THEN Append(@, <<s.start_line, line_num>>)
                       ELSE @,
            !.in_pin_block = FALSE,
            !.is_output_pin = FALSE,
            !.start_line = 0,
            !.start_depth = 0]

\* stripped_line.startswith(('pin (', 'bus ('))
IsPinHeader(line) ==
  \/ StartsWith(line, <<"pin", " ", "(">>)
  \/ StartsWith(line, <<"bus", " ", "(">>)

\* One iteration of the loop of find_output_pin_line_ranges.
FindStep(s, line, line_num) ==
  LET opening == IsPinHeader(line) /\ ~s.in_pin_block
      s1 == IF opening
            THEN [s EXCEPT !.in_pin_block = TRUE,
                           !.is_output_pin = FALSE,
                           !.start_line = line_num,
                           !.start_depth = s.brace_depth]
            ELSE s
      s2 == [s1 EXCEPT !.brace_depth = @ + Count(line, "{") - Count(line, "}")]
      s3 == IF /\ s2.in_pin_block
               /\ Contains(line, <<"direction">>)
               /\ Contains(line, <<"output">>)
            THEN [s2 EXCEPT !.is_output_pin = TRUE]
            ELSE s2
  IN  IF s3.in_pin_block /\ BlockEnds(s3.brace_depth, s3.start_depth)
      THEN EndBlock(s3, line_num)
      ELSE s3

\* The locals after the first k lines.
RECURSIVE FindScan(_, _)
FindScan(lines, k) ==
  IF k = 0 THEN FindLocals
  ELSE FindStep(FindScan(lines, k - 1), lines[k], k)

find_output_pin_line_ranges(lines) == FindScan(lines, Len(lines)).ranges

\* The locals of the second pass of process_lib_file before the loop.
\* scaled lists the numbers of the lines handed to scale_numbers_in_line.
RewriteLocals ==
  [ modified_lines |-> <<>>,
    is_in_output_range |-> FALSE,
    is_scaling_values |-> FALSE,
    current_range_index |-> 0,
    scaled |-> {} ]

\* is_scaling_values after a line of a selected range.
ScalingAfter(scaling, line) ==
  IF Contains(line, <<")", ";">>) THEN FALSE
  ELSE scaling \/ Contains(line, <<"values", " ", "(">>)

\* LeaveRange without the reset of is_in_output_range.
LeaveRange_StaysInside(s) == [s EXCEPT !.current_range_index = @ + 1]

\* The second pass leaves the current range at its last line.
LeaveRange(s) ==
  [s EXCEPT !.is_in_output_range = FALSE, !.current_range_index = @ + 1]

\* One iteration of the second pass (current_range_index counts from 0).
RewriteStep(s, output_ranges, line, line_num) ==
  LET more    == s.current_range_index < Len(output_ranges)
      rng     == output_ranges[s.current_range_index + 1]
      inside  == s.is_in_output_range \/ (more /\ line_num >= rng[1])
      scaling == s.is_scaling_values \/ Contains(line, <<"values", " ", "(">>)
      doscale == /\ inside
                 /\ \/ scaling
                    \/ StartsWith(line, <<"index_1">>)
                    \/ StartsWith(line, <<"index_2">>)
      s1 == [s EXCEPT !.is_in_output_range = inside,
                      !.is_scaling_values = IF inside THEN ScalingAfter(@, line) ELSE @,
                      !.modified_lines = Append(@, IF doscale
                                                   THEN scale_numbers_in_line(line)
                                                   ELSE line),
                      !.scaled = IF doscale THEN @ \cup {line_num} ELSE @]
  IN  IF more /\ line_num >= rng[2] THEN LeaveRange(s1) ELSE s1

RECURSIVE RewriteScan(_, _, _)
RewriteScan(lines, output_ranges, k) ==
  IF k = 0 THEN RewriteLocals
  ELSE RewriteStep(RewriteScan(lines, output_ranges, k - 1), output_ranges, lines[k], k)

\* open(input_path, 'r') raises FileNotFoundError: sys.exit(1).
ProcessMissing ==
  /\ pc = "process_start"
  /\ ~disk.lib.exists
  /\ pc' = "process_exit"
  /\ res' = "exit_1"
  /\ UNCHANGED <<disk, orig, run, st>>

\* lines = f.readlines()
ProcessRead ==
  /\ pc = "process_start"
  /\ disk.lib.exists
  /\ st' = [lines |-> disk.lib.data]
  /\ pc' = "process_pass1"
  /\ UNCHANGED <<disk, orig, run, res>>

\* Pass 1: output_ranges = find_output_pin_line_ranges(lines)
ProcessPass1 ==
  /\ pc = "process_pass1"
  /\ st' = [lines |-> st.lines,
            output_ranges |-> find_output_pin_line_ranges(st.lines)]
  /\ pc' = "process_pass2"
  /\ UNCHANGED <<disk, orig, run, res>>

\* Pass 2: the loop that builds modified_lines.
ProcessPass2 ==
  /\ pc = "process_pass2"
  /\ LET r == RewriteScan(st.lines, st.output_ranges, Len(st.lines))
     IN  st' = [lines |-> st.lines,
                output_ranges |-> st.output_ranges,
                modified_lines |-> r.modified_lines,
                scaled |-> r.scaled,
                is_scaling_values |-> r.is_scaling_values]
  /\ pc' = "process_write"
  /\ UNCHANGED <<disk, orig, run, res>>

\* The output file once open(output_path, 'w') has truncated it and the
\* first k lines have been written.
Written(d, output_path, data, k) ==
  [d EXCEPT ![output_path] = File(SubSeq(data, 1, k))]

\* open(output_path, 'w') and f.writelines(modified_lines) succeed.
ProcessWrite ==
  /\ pc = "process_write"
  /\ \E output_path \in {"lib", "out"} :
       disk' = Written(disk, output_path, st.modified_lines, Len(st.modified_lines))
  /\ pc' = "process_done"
  /\ res' = "ok"
  /\ UNCHANGED <<orig, run, st>>

\* An I/O error during writelines: the exception is not caught, and the
\* output file keeps what had been written.
ProcessWriteError ==
  /\ pc = "process_write"
  /\ \E output_path \in {"lib", "out"}, k \in 0..(Len(st.modified_lines) - 1) :
       disk' = Written(disk, output_path, st.modified_lines, k)
  /\ pc' = "process_done"
  /\ res' = "error"
  /\ UNCHANGED <<orig, run, st>>

InitScale ==
  /\ \E f \in {NoFile} \cup {File(d) : d \in SeqsUpTo(ScaleAlphabet, MaxLen)} :
       /\ disk = [lib |-> f, tmp |-> NoFile, out |-> NoFile]
       /\ orig = f
  /\ pc = "process_start"
  /\ run = "first"
  /\ st = [lines |-> <<>>]
  /\ res = "none"

NextScale ==
  \/ ProcessMissing
  \/ ProcessRead
  \/ ProcessPass1
  \/ ProcessPass2
  \/ ProcessWrite
  \/ ProcessWriteError

SpecScale == InitScale /\ [][NextScale]_vars

(***************************************************************************)
(* update_lib_area.py                                                      *)
(*                                                                         *)
(* In an "area : #;" line nums holds the text that stands for "#", a       *)
(* sequence of characters.  A Decimal is its coefficient's digits and the  *)
(* number of digits after the point.                                       *)
(***************************************************************************)
Decimal(coef, scale) == [coef |-> coef, scale |-> scale]

Digits == {"0", "1", "2", "3", "4", "5", "6", "7", "8", "9"}

AreaAlphabet ==
  { Line("area : #;", << <<"0">> >>),
    Line("area : #;", << <<"4", ".", "5">> >>),
    Line("cell (sram) {", <<>>),
    Line("}", <<>>) }

\* The areas update_lib_file is called with: 12.50, 100 and 0.
Areas ==
  { Decimal(<<"1", "2", "5", "0">>, 2),
    Decimal(<<"1", "0", "0">>, 0),
    Decimal(<<"0">>, 0) }

\* f"{area:f}"
RECURSIVE FormatF(_)
FormatF(area) ==
  IF area.scale = 0 THEN area.coef
  ELSE IF Len(area.coef) <= area.scale
       THEN FormatF(Decimal(<<"0">> \o area.coef, area.scale))
       ELSE SubSeq(area.coef, 1, Len(area.coef) - area.scale) \o <<".">>
            \o SubSeq(area.coef, Len(area.coef) - area.scale + 1, Len(area.coef))

\* str.rstrip(ch)
RECURSIVE RStrip(_, _)
RStrip(text, ch) ==
  IF Len(text) > 0 /\ text[Len(text)] = ch
  THEN RStrip(SubSeq(text, 1, Len(text) - 1), ch)
  ELSE text

formatted_area(area) == RStrip(RStrip(FormatF(area), "0"), ".")

\* LIB_AREA_RE matches in the line: ^\s*area\s*:\s* then [0-9.]+ then \s*;
LIB_AREA_RE(line) ==
  /\ SearchAtStart(line, <<"area", ":", "#", ";">>)
  /\ Len(line.nums[1]) >= 1
  /\ \A i \in 1..Len(line.nums[1]) : line.nums[1][i] \in Digits \cup {"."}

\* Replace with the old number kept in front of the new one.
Replace_KeepsOldNumber(line, text) == [line EXCEPT !.nums = <<line.nums[1] \o text>>]

\* The replacement of one match: groups 1 and 2 kept, the number replaced.
Replace(line, text) == [line EXCEPT !.nums = <<text>>]

\* LIB_AREA_RE.subn(replacement_string, lib_content): every match is replaced.
subn(text, lib_content) ==
  [ new_lib_content |-> [i \in 1..Len(lib_content) |->
                           IF LIB_AREA_RE(lib_content[i])
                           THEN Replace(lib_content[i], text)
                           ELSE lib_content[i]],
    count |-> Cardinality({i \in 1..Len(lib_content) : LIB_AREA_RE(lib_content[i])}) ]

\* The test after subn that makes update_lib_file give up.
GiveUp(count) == count = 0

\* open(lib_file_path, 'r') raises: the except clause returns False.
UpdateMissing ==
  /\ pc = "update_start"
  /\ ~disk.lib.exists
  /\ pc' = "update_done"
  /\ res' = "False"
  /\ UNCHANGED <<disk, orig, run, st>>

\* The file is read and the substitution computed.
UpdateSubn ==
  /\ pc = "update_start"
  /\ disk.lib.exists
  /\ LET r == subn(formatted_area(st.area), disk.lib.data)
     IN  st' = [area |-> st.area,
                new_lib_content |-> r.new_lib_content,
                count |-> r.count]
  /\ pc' = "update_subn"
  /\ UNCHANGED <<disk, orig, run, res>>

\* count == 0: a warning, return False, nothing is written.
UpdateNoMatch ==
  /\ pc = "update_subn"
  /\ GiveUp(st.count)
  /\ pc' = "update_done"
  /\ res' = "False"
  /\ UNCHANGED <<disk, orig, run, st>>

\* open(lib_file_path, 'w') and f.write(new_lib_content) succeed: return True.
UpdateWrite ==
  /\ pc = "update_subn"
  /\ ~GiveUp(st.count)
  /\ disk' = Written(disk, "lib", st.new_lib_content, Len(st.new_lib_content))
  /\ pc' = "update_done"
  /\ res' = "True"
  /\ UNCHANGED <<orig, run, st>>

\* The write raises after open(lib_file_path, 'w') truncated the file: the
\* file keeps what had been written, the except clause returns False.
UpdateWriteError ==
  /\ pc = "update_subn"
  /\ ~GiveUp(st.count)
  /\ \E k \in 0..(Len(st.new_lib_content) - 1) :
       disk' = Written(disk, "lib", st.new_lib_content, k)
  /\ pc' = "update_done"
  /\ res' = "False"
  /\ UNCHANGED <<orig, run, st>>

\* After a successful update, update_lib_file is called once more on the
\* same file with the same area.
UpdateAgain ==
  /\ pc = "update_done"
  /\ res = "True"
  /\ run = "first"
  /\ run' = "second"
  /\ orig' = disk.lib
  /\ pc' = "update_start"
  /\ res' = "none"
  /\ st' = [area |-> st.area]
  /\ UNCHANGED disk

InitArea ==
  /\ \E f \in {NoFile} \cup {File(d) : d \in SeqsUpTo(AreaAlphabet, MaxLen)} :
       /\ disk = [lib |-> f, tmp |-> NoFile, out |-> NoFile]
       /\ orig = f
  /\ pc = "update_start"
  /\ run = "first"
  /\ \E a \in Areas : st = [area |-> a]
  /\ res = "none"

NextArea ==
  \/ UpdateMissing
  \/ UpdateSubn
  \/ UpdateNoMatch
  \/ UpdateWrite
  \/ UpdateWriteError
  \/ UpdateAgain

SpecArea == InitArea /\ [][NextArea]_vars

(***************************************************************************)
(* The block structure of a text, as the specification defines it: the     *)
(* brace depth after each line, and a block as the lines from its header   *)
(* to the first line at which the depth is back at the depth before the    *)
(* header.                                                                 *)
(***************************************************************************)
RECURSIVE Depth(_, _)
Depth(lines, k) ==
  IF k = 0 THEN 0
  ELSE Depth(lines, k - 1) + Count(lines[k], "{") - Count(lines[k], "}")

\* The lines from s on at which the depth is back at the depth before line s.
Returns(lines, s) ==
  {j \in s..Len(lines) : Depth(lines, j) = Depth(lines, s - 1)}

Min(S) == CHOOSE x \in S : \A y \in S : x <= y

Terminated(lines, s) == Returns(lines, s) # {}

\* The last line of the block whose header is line s (the last line of the
\* text when the block is never closed).
BlockEnd(lines, s) ==
  IF Terminated(lines, s) THEN Min(Returns(lines, s)) ELSE Len(lines)

\* The blocks <<s, e>> whose header is not inside an earlier block;
\* headers is the set of the header lines' numbers.
RECURSIVE BlocksFrom(_, _, _)
BlocksFrom(lines, headers, i) ==
  IF i > Len(lines) THEN {}
  ELSE IF i \in headers
       THEN {<<i, BlockEnd(lines, i)>>}
            \cup BlocksFrom(lines, headers, BlockEnd(lines, i) + 1)
       ELSE BlocksFrom(lines, headers, i + 1)

TimingBlocks(lines) ==
  BlocksFrom(lines, {i \in 1..Len(lines) : timing_start_match(lines[i])}, 1)

\* Unbalanced braces: the depth goes negative, or some line opens a brace
\* and the depth never returns to what it was before that line.
Unbalanced(lines) ==
  \/ \E k \in 1..Len(lines) : Depth(lines, k) < 0
  \/ \E s \in 1..Len(lines) :
       /\ Count(lines[s], "{") > 0
       /\ ~Terminated(lines, s)

Range(f) == {f[i] : i \in DOMAIN f}

\* The lines of a text at the given numbers, in order.
RECURSIVE Select(_, _, _)
Select(lines, keep, i) ==
  IF i > Len(lines) THEN <<>>
  ELSE (IF i \in keep THEN <<lines[i]>> ELSE <<>>) \o Select(lines, keep, i + 1)

CleanSucceeded == pc = "clean_done" /\ res = "ok"

(***************************************************************************)
(* C1.  When the input of clean_lib_file has unbalanced braces, the run    *)
(* reports a failure (it does not end as a successful run) and the file    *)
(* on disk is the input, unchanged: nothing half-rewritten, no line of     *)
(* the open block lost.                                                    *)
(***************************************************************************)
C1_UnbalancedInputLeftIntact ==
  (pc = "clean_done" /\ orig.exists /\ Unbalanced(orig.data))
    => (res # "ok" /\ disk.lib = orig)

(***************************************************************************)
(* C2.  After a successful clean_lib_file run, every timing block of the   *)
(* input in which both related_pin : "clk"; and timing_type :              *)
(* setup_falling; occur has none of its lines in the output, and every     *)
(* other timing block has all of its lines in the output; the output is    *)
(* the written input lines, unchanged and in their original order.         *)
(***************************************************************************)
BothOccur(lines, b) ==
  /\ \E i \in b[1]..b[2] : related_pin_clk(lines[i])
  /\ \E i \in b[1]..b[2] : timing_type_setup_falling(lines[i])

C2_RemovableBlocksRemovedOthersKept ==
  CleanSucceeded =>
    /\ \A b \in TimingBlocks(orig.data) :
         IF BothOccur(orig.data, b)
         THEN (b[1]..b[2]) \cap Range(st.written) = {}
         ELSE (b[1]..b[2]) \subseteq Range(st.written)
    /\ \A i \in 1..(Len(st.written) - 1) : st.written[i] < st.written[i + 1]
    /\ disk.lib.data = [i \in 1..Len(st.written) |-> orig.data[st.written[i]]]

(***************************************************************************)
(* C3.  A tool that overwrites its input and fails leaves the original     *)
(* file as it was before the run, and leaves no temporary file.            *)
(***************************************************************************)
Failed ==
  \/ pc = "clean_done" /\ res \in {"error", "move_error"}
  \/ pc = "process_done" /\ res = "error"
  \/ pc = "update_done" /\ res = "False"

C3_FailureLeavesOriginal == Failed => (disk.lib = orig /\ ~disk.tmp.exists)

(***************************************************************************)
(* C4.  update_lib_file replaces the area only when exactly one line       *)
(* matches: then it returns True with that line's number replaced and all  *)
(* else preserved; with no match or several it returns False and the file  *)
(* is unmodified.                                                          *)
(***************************************************************************)
Matches(lines) == {i \in 1..Len(lines) : LIB_AREA_RE(lines[i])}

C4_ExactlyOneMatchOrFailure ==
  (pc = "update_done" /\ orig.exists) =>
    IF Cardinality(Matches(orig.data)) = 1
    THEN res = "True" =>
           disk.lib.data = [i \in 1..Len(orig.data) |->
                              IF i \in Matches(orig.data)
                              THEN Replace(orig.data[i], formatted_area(st.area))
                              ELSE orig.data[i]]
    ELSE res = "False" /\ disk.lib = orig

(***************************************************************************)
(* C5.  The second pass of process_lib_file yields as many lines as it     *)
(* read, and every line outside all the selected spans is the input line   *)
(* of the same number, unchanged: in particular every line of a pin/bus    *)
(* block, as the first pass delimits it, that has no line containing both  *)
(* direction and output.                                                   *)
(***************************************************************************)
PassesDone == pc = "process_write"

Emitted == pc = "process_done" /\ res = "ok"

InSpan(i, spans) == \E k \in 1..Len(spans) : spans[k][1] <= i /\ i <= spans[k][2]

\* The pin/bus blocks the first pass went through: those it closed, and the
\* one still open at the end of the text.
ScannedBlocks(lines) ==
  { <<(IF FindScan(lines, e - 1).in_pin_block
       THEN FindScan(lines, e - 1).start_line ELSE e), e>> :
      e \in { k \in 1..Len(lines) :
                /\ ~FindScan(lines, k).in_pin_block
                /\ \/ FindScan(lines, k - 1).in_pin_block
                   \/ IsPinHeader(lines[k]) } }
  \cup { <<FindScan(lines, Len(lines)).start_line, Len(lines)>> :
           x \in {y \in {1} : FindScan(lines, Len(lines)).in_pin_block} }

HasOutputDirection(lines, b) ==
  \E i \in b[1]..b[2] :
     Contains(lines[i], <<"direction">>) /\ Contains(lines[i], <<"output">>)

C5_LinesOutsideSpansUnchanged ==
  /\ Emitted =>
       \E output_path \in {"lib", "out"} :
          disk[output_path] = File(st.modified_lines)
  /\ PassesDone =>
    /\ Len(st.modified_lines) = Len(st.lines)
    /\ \A i \in 1..Len(st.lines) :
         ~InSpan(i, st.output_ranges) => st.modified_lines[i] = st.lines[i]
    /\ \A b \in ScannedBlocks(st.lines) :
         ~HasOutputDirection(st.lines, b) =>
            \A i \in b[1]..b[2] : st.modified_lines[i] = st.lines[i]

\* Both passes are done on a text that has a selected span and, outside
\* every span, a pin/bus block without output direction that holds a number.
C5_Witness ==
  /\ PassesDone
  /\ Len(st.output_ranges) > 0
  /\ \E b \in ScannedBlocks(st.lines) :
       /\ ~HasOutputDirection(st.lines, b)
       /\ \E i \in b[1]..b[2] :
            /\ Contains(st.lines[i], <<"values", " ", "(">>)
            /\ scale_numbers_in_line(st.lines[i]) # st.lines[i]

(***************************************************************************)
(* C6.  The second pass hands a line to scale_numbers_in_line only if the  *)
(* line is in a selected span and either starts with index_1 / index_2 or  *)
(* lies in a values ( ... ); sub-block opened within that same span.       *)
(***************************************************************************)
InValuesOf(lines, span, i) ==
  \E j \in span[1]..i :
     /\ Contains(lines[j], <<"values", " ", "(">>)
     /\ \A m \in j..(i - 1) : ~Contains(lines[m], <<")", ";">>)

C6_OnlyTablesOfTheSpanScaled ==
  PassesDone =>
    \A i \in st.scaled :
       \E k \in 1..Len(st.output_ranges) :
          /\ st.output_ranges[k][1] <= i
          /\ i <= st.output_ranges[k][2]
          /\ \/ StartsWith(st.lines[i], <<"index_1">>)
             \/ StartsWith(st.lines[i], <<"index_2">>)
             \/ InValuesOf(st.lines, st.output_ranges[k], i)

(***************************************************************************)
(* C7.  After a successful clean_lib_file run the output is the input with *)
(* exactly the lines of the blocks reported as removed left out, the rest  *)
(* in order, and it has as many lines as the input less the lines of the   *)
(* reported ranges; removed_blocks_count counts those ranges.              *)
(***************************************************************************)
ReportedLines == UNION {(st.removed[k][1])..(st.removed[k][2]) : k \in 1..Len(st.removed)}

RECURSIVE SumLens(_, _)
SumLens(ranges, k) ==
  IF k = 0 THEN 0
  ELSE SumLens(ranges, k - 1) + (ranges[k][2] - ranges[k][1] + 1)

C7_OutputIsInputLessRemovedBlocks ==
  CleanSucceeded =>
    /\ disk.lib.data = Select(orig.data, (1..Len(orig.data)) \ ReportedLines, 1)
    /\ Len(disk.lib.data) = Len(orig.data) - SumLens(st.removed, Len(st.removed))
    /\ st.removed_blocks_count = Len(st.removed)

(***************************************************************************)
(* C8.  The spans find_output_pin_line_ranges returns are in ascending     *)
(* order and disjoint: start_line <= end_line in every span, and every     *)
(* span starts after the span before it has ended.                         *)
(***************************************************************************)
RangesFound == pc \in {"process_pass2", "process_write", "process_done"}

C8_SpansAscendingDisjoint ==
  RangesFound =>
    /\ \A k \in 1..Len(st.output_ranges) :
         /\ 1 <= st.output_ranges[k][1]
         /\ st.output_ranges[k][1] <= st.output_ranges[k][2]
         /\ st.output_ranges[k][2] <= Len(st.lines)
    /\ \A k \in 1..(Len(st.output_ranges) - 1) :
         st.output_ranges[k][2] < st.output_ranges[k + 1][1]

\* The first pass returned two spans, the first of more than one line.
C8_Witness ==
  /\ RangesFound
  /\ Len(st.output_ranges) >= 2
  /\ st.output_ranges[1][1] < st.output_ranges[1][2]

(***************************************************************************)
(* C9.  A tool run again on the output of its own successful run changes   *)
(* nothing.  As first stated: the second clean_lib_file run removes no     *)
(* block and leaves the file as it was, and the second update_lib_file     *)
(* run finds no match, reports no change and leaves the file as it was.    *)
(***************************************************************************)
SecondCleanIsNoOp ==
  (run = "second" /\ CleanSucceeded) =>
     (st.removed_blocks_count = 0 /\ disk.lib = orig)

InitRerun == InitClean \/ InitArea

NextRerun == NextClean \/ NextArea

SpecRerun == InitRerun /\ [][NextRerun]_vars

(***************************************************************************)
(* C10.  The timing-block scanner of clean_lib_file counts the braces of   *)
(* every line of a block, the header included: a block stays open only     *)
(* while the brace depth has not come back to the depth before its header, *)
(* and it is closed at the first line at which the depth is back there.    *)
(***************************************************************************)
C10_BlockClosedWhereDepthReturns ==
  [][ (pc = "clean_loop" /\ pc' = "clean_loop") =>
        /\ st'.in_timing_block =>
              \A j \in (st'.block_start_line)..(st'.line_number) :
                 Depth(orig.data, j) # Depth(orig.data, st'.block_start_line - 1)
        /\ (st.in_timing_block /\ ~st'.in_timing_block) =>
              /\ Terminated(orig.data, st'.block_start_line)
              /\ st'.line_number = BlockEnd(orig.data, st'.block_start_line) ]_vars

(***************************************************************************)
(* C11.  When the timing-block scanner of clean_lib_file closes a block,   *)
(* each of its flags is the OR of the flag's rule over the lines of the    *)
(* block from its header line to its closing line, both included; and a    *)
(* timing header met while a block is open neither opens a second block    *)
(* nor resets a flag.                                                      *)
(***************************************************************************)
C11_FlagsAreTheOrOverTheBlock ==
  [][ (pc = "clean_loop" /\ pc' = "clean_loop") =>
        /\ (st.in_timing_block /\ ~st'.in_timing_block) =>
              /\ st'.found_clk <=>
                    \E i \in (st'.block_start_line)..(st'.line_number) :
                       related_pin_clk(orig.data[i])
              /\ st'.found_setup_falling <=>
                    \E i \in (st'.block_start_line)..(st'.line_number) :
                       timing_type_setup_falling(orig.data[i])
        /\ (st.in_timing_block /\ timing_start_match(orig.data[st'.line_number])) =>
              /\ st'.block_start_line = st.block_start_line
              /\ st.found_clk => st'.found_clk
              /\ st.found_setup_falling => st'.found_setup_falling ]_vars

====
